---- MODULE Spec2Model ----
(***************************************************************************)
(* A model of the Mewgenics localisation scripts:                          *)
(*   auto_wrap_ja.py          tokenizer, line packer, segment wrapper and  *)
(*                            the row driver that rewrites the ja column   *)
(*   merge_translated.py      merge of a translated table into a base one  *)
(*   ai_translate_missing_ja.py  the retry loop around the remote call     *)
(*                                                                         *)
(* A Python str is a sequence of one-character strings.  A position `pos`  *)
(* is the number of characters already consumed, as in the source (a       *)
(* 0-based index); the character at Python index i is t[i + 1].            *)
(***************************************************************************)
EXTENDS Integers, Sequences, FiniteSets, TLC

\* ------------------------------------------------------------------------
\* Bounds of the model
\* ------------------------------------------------------------------------

\* Pieces concatenated to build an input of the tokenizer.
MaxTokPieces == 4

\* Pieces concatenated to build an input of wrap_ja_text.
MaxWrapPieces == 3

\* max_len ranges over 1..MaxWidth.
MaxWidth == 3

\* Rows of a table.
MaxRows == 2

\* Rows of the base table and of the translated table of a merge.
MaxMergeRows == 2

\* retries ranges over 0..MaxRetries.
MaxRetries == 2

\* ------------------------------------------------------------------------
\* Characters
\* ------------------------------------------------------------------------

LF == "\n"

\* The characters the model's strings are made of.  "a", "g", "i", "m" stand
\* for [A-Za-z0-9]; "_" is a word character (\w) that is not ASCII
\* alphanumeric, as a CJK ideograph is; ":", "/", " " and "'" are neither
\* ("'" stands for the backquote of a code fence).
Chars ==
    {"[", "]", "{", "}", "&", ";", ":", "/", " ", "'", "a", "g", "i", "m", "_",
     LF}

\* [A-Za-z0-9]
AsciiAlnum == {"a", "g", "i", "m"}

\* \w of a Python 3 str pattern
WordChars == AsciiAlnum \cup {"_"}

\* [^\[\]]
NotBracket == Chars \ {"[", "]"}

\* [^{}]
NotBrace == Chars \ {"{", "}"}

\* ------------------------------------------------------------------------
\* Sequences
\* ------------------------------------------------------------------------

Max(S) == CHOOSE x \in S : \A y \in S : y <= x

Min(S) == CHOOSE x \in S : \A y \in S : x <= y

RECURSIVE SumLen(_)
\* Total length of a sequence of strings.
SumLen(ss) == IF ss = <<>> THEN 0 ELSE Len(Head(ss)) + SumLen(Tail(ss))

RECURSIVE Flatten(_)
\* "".join(ss)
Flatten(ss) == IF ss = <<>> THEN <<>> ELSE Head(ss) \o Flatten(Tail(ss))

\* ------------------------------------------------------------------------
\* The regular expressions of auto_wrap_ja.py
\* ------------------------------------------------------------------------

\* One alternative of the shape  prefix body+ close  tried at index p: the
\* index after the match, or 0.  The regex engine tries the longest body first
\* and backtracks to shorter ones, so the match is the longest candidate.
PatEnd(t, p, prefix, body, close) ==
    LET b == p + Len(prefix)
        E == {q \in (b + 1)..Len(t) :
                /\ SubSeq(t, p, b - 1) = prefix
                /\ \A k \in b..(q - 1) : t[k] \in body
                /\ t[q] = close}
    IN  IF E = {} THEN 0 ELSE Max(E) + 1

\* \[img:\w+\]
ImgEnd(t, p) == PatEnd(t, p, <<"[", "i", "m", "g", ":">>, WordChars, "]")

\* \[/?[^\[\]]+\]   (the optional slash is tried first, then skipped)
TagEnd(t, p) ==
    LET withSlash == PatEnd(t, p, <<"[", "/">>, NotBracket, "]")
    IN  IF withSlash # 0 THEN withSlash
        ELSE PatEnd(t, p, <<"[">>, NotBracket, "]")

\* \{[^{}]+\}
VarEnd(t, p) == PatEnd(t, p, <<"{">>, NotBrace, "}")

\* &\w+;
EntityEnd(t, p) == PatEnd(t, p, <<"&">>, WordChars, ";")

\* The combined pattern tried at index p: the alternatives in their order; g is
\* the group that matched (0: none), e the index after the match.
MatchAtSwapped(t, p) ==
    IF TagEnd(t, p) # 0 THEN [g |-> 2, s |-> p, e |-> TagEnd(t, p)]
    ELSE IF ImgEnd(t, p) # 0 THEN [g |-> 1, s |-> p, e |-> ImgEnd(t, p)]
    ELSE IF VarEnd(t, p) # 0 THEN [g |-> 3, s |-> p, e |-> VarEnd(t, p)]
    ELSE IF EntityEnd(t, p) # 0 THEN [g |-> 4, s |-> p, e |-> EntityEnd(t, p)]
    ELSE [g |-> 0, s |-> p, e |-> p]

MatchAt(t, p) ==
    IF ImgEnd(t, p) # 0 THEN [g |-> 1, s |-> p, e |-> ImgEnd(t, p)]
    ELSE IF TagEnd(t, p) # 0 THEN [g |-> 2, s |-> p, e |-> TagEnd(t, p)]
    ELSE IF VarEnd(t, p) # 0 THEN [g |-> 3, s |-> p, e |-> VarEnd(t, p)]
    ELSE IF EntityEnd(t, p) # 0 THEN [g |-> 4, s |-> p, e |-> EntityEnd(t, p)]
    ELSE [g |-> 0, s |-> p, e |-> p]

\* The next match of the combined pattern at or after index p (finditer's
\* leftmost search); g = 0 when there is none.
NextMatch(t, p) ==
    LET P == {q \in p..Len(t) : MatchAt(t, q).g # 0}
    IN  IF P = {} THEN [g |-> 0, s |-> Len(t) + 1, e |-> Len(t) + 1]
        ELSE MatchAt(t, Min(P))

\* ------------------------------------------------------------------------
\* _tokenize_plain
\* ------------------------------------------------------------------------

\* A token is the pair (text, display width).
Token(str, width) == [s |-> str, w |-> width]

\* for ch in text: tokens.append((ch, 1))
Singles(str) == [k \in 1..Len(str) |-> Token(<<str[k]>>, 1)]

\* The index after the run of characters of S that starts at index p.
RunEnd(t, p, S) ==
    LET stop == {q \in p..Len(t) : t[q] \notin S}
    IN  IF stop = {} THEN Len(t) + 1 ELSE Min(stop)

RECURSIVE PlainLoop(_, _, _)
\* The loop over ascii_word.finditer(text) and the characters after the last
\* word.
PlainLoop(t, pos, toks) ==
    LET starts == {q \in (pos + 1)..Len(t) : t[q] \in AsciiAlnum}
    IN  IF starts = {}
        THEN toks \o Singles(SubSeq(t, pos + 1, Len(t)))
        ELSE LET ms == Min(starts)
                 me == RunEnd(t, ms, AsciiAlnum)
                 word == SubSeq(t, ms, me - 1)
             IN  PlainLoop(t, me - 1,
                           toks \o Singles(SubSeq(t, pos + 1, ms - 1))
                                \o <<Token(word, Len(word))>>)

\* A variant that emits every character as its own token.
TokenizePlainCharwise(t) == Singles(t)

TokenizePlain(t) == PlainLoop(t, 0, <<>>)

\* ------------------------------------------------------------------------
\* tokenize
\* ------------------------------------------------------------------------

\* The display width given to a match of group g.
MatchWidth(g, str) ==
    CASE g = 1 -> 1
      [] g = 2 -> 0
      [] g = 3 -> Len(str)
      [] g = 4 -> 1

\* A variant of the loop body that forgets the plain text before the match.
TokMatchStepNoPlain(t, pos, toks, m) ==
    toks \o <<Token(SubSeq(t, m.s, m.e - 1),
                    MatchWidth(m.g, SubSeq(t, m.s, m.e - 1)))>>

\* The body of the loop over combined.finditer(text) for the match m: the
\* plain text before the match, then the match as one token.
TokMatchStep(t, pos, toks, m) ==
    LET before == IF m.s - 1 > pos
                  THEN TokenizePlain(SubSeq(t, pos + 1, m.s - 1))
                  ELSE <<>>
        str == SubSeq(t, m.s, m.e - 1)
    IN  toks \o before \o <<Token(str, MatchWidth(m.g, str))>>

\* The plain text after the last match.
TokRemaining(t, pos, toks) ==
    IF pos < Len(t)
    THEN toks \o TokenizePlain(SubSeq(t, pos + 1, Len(t)))
    ELSE toks

RECURSIVE TokLoop(_, _, _)
TokLoop(t, pos, toks) ==
    LET m == NextMatch(t, pos + 1)
    IN  IF m.g = 0 THEN TokRemaining(t, pos, toks)
        ELSE TokLoop(t, m.e - 1, TokMatchStep(t, pos, toks, m))

\* tokenize(text)
Tokenize(t) == TokLoop(t, 0, <<>>)

\* "".join of the token texts
TokenText(toks) == Flatten([k \in 1..Len(toks) |-> toks[k].s])

RECURSIVE TotalWidth(_)
\* sum(w for _, w in tokens)
TotalWidth(toks) ==
    IF toks = <<>> THEN 0 ELSE Head(toks).w + TotalWidth(Tail(toks))

\* ------------------------------------------------------------------------
\* wrap_segment and wrap_ja_text
\* ------------------------------------------------------------------------

RECURSIVE Split(_)
\* text.split("\n"): empty parts are kept
Split(t) ==
    LET brk == {q \in 1..Len(t) : t[q] = LF}
    IN  IF brk = {} THEN <<t>>
        ELSE <<SubSeq(t, 1, Min(brk) - 1)>>
                 \o Split(SubSeq(t, Min(brk) + 1, Len(t)))

RECURSIVE Join(_)
\* "\n".join(ss)
Join(ss) ==
    IF ss = <<>> THEN <<>>
    ELSE IF Len(ss) = 1 THEN ss[1]
    ELSE ss[1] \o <<LF>> \o Join(Tail(ss))

\* The packer's locals before the loop.
PackInit == [lines |-> <<>>, current |-> <<>>, current_display |-> 0]

\* Variants of the loop body: one drops the token that starts a new line, one
\* compares the width of the line without the token's, one breaks before a
\* token even when the line is empty.
PackTokenDropsToken(st, tok, max_len) ==
    IF tok.w > 0 /\ st.current_display + tok.w > max_len /\ st.current # <<>>
    THEN [lines |-> Append(st.lines, st.current),
          current |-> <<>>,
          current_display |-> tok.w]
    ELSE [lines |-> st.lines,
          current |-> st.current \o tok.s,
          current_display |-> st.current_display + tok.w]

PackTokenLateBreak(st, tok, max_len) ==
    IF tok.w > 0 /\ st.current_display > max_len /\ st.current # <<>>
    THEN [lines |-> Append(st.lines, st.current),
          current |-> tok.s,
          current_display |-> tok.w]
    ELSE [lines |-> st.lines,
          current |-> st.current \o tok.s,
          current_display |-> st.current_display + tok.w]

PackTokenBreaksEmpty(st, tok, max_len) ==
    IF tok.w > 0 /\ st.current_display + tok.w > max_len
    THEN [lines |-> Append(st.lines, st.current),
          current |-> tok.s,
          current_display |-> tok.w]
    ELSE [lines |-> st.lines,
          current |-> st.current \o tok.s,
          current_display |-> st.current_display + tok.w]

\* A variant of the loop body that breaks before a token of width 0 too.
PackTokenBreaksOnTag(st, tok, max_len) ==
    IF st.current_display + tok.w > max_len /\ st.current # <<>>
    THEN [lines |-> Append(st.lines, st.current),
          current |-> tok.s,
          current_display |-> tok.w]
    ELSE [lines |-> st.lines,
          current |-> st.current \o tok.s,
          current_display |-> st.current_display + tok.w]

\* The body of  for token_str, token_width in tokens
PackToken(st, tok, max_len) ==
    IF tok.w > 0 /\ st.current_display + tok.w > max_len /\ st.current # <<>>
    THEN [lines |-> Append(st.lines, st.current),
          current |-> tok.s,
          current_display |-> tok.w]
    ELSE [lines |-> st.lines,
          current |-> st.current \o tok.s,
          current_display |-> st.current_display + tok.w]

\* if current: lines.append(current)
PackLines(st) ==
    IF st.current # <<>> THEN Append(st.lines, st.current) ELSE st.lines

RECURSIVE PackLoop(_, _, _, _)
PackLoop(toks, k, st, max_len) ==
    IF k > Len(toks) THEN st
    ELSE PackLoop(toks, k + 1, PackToken(st, toks[k], max_len), max_len)

\* wrap_segment(segment, max_len)
WrapSegment(seg, max_len) ==
    LET toks == Tokenize(seg)
    IN  IF TotalWidth(toks) <= max_len THEN seg
        ELSE Join(PackLines(PackLoop(toks, 1, PackInit, max_len)))

\* A variant of split that drops empty parts.
SplitPartsDropEmpty(t) == SelectSeq(Split(t), LAMBDA part : part # <<>>)

\* parts = text.split("\n")
SplitParts(t) == Split(t)

\* wrap_ja_text(text, max_len): (wrapped, changed)
WrapJaText(t, max_len) ==
    IF t = <<>> THEN [text |-> t, changed |-> FALSE]
    ELSE LET ps == SplitParts(t)
             out == Join([k \in 1..Len(ps) |-> WrapSegment(ps[k], max_len)])
         IN  [text |-> out, changed |-> out # t]

\* ------------------------------------------------------------------------
\* State
\* ------------------------------------------------------------------------

VARIABLES
    tk_text,      \* tokenize: its argument
    tk_pos,       \* tokenize: pos
    tk_tokens,    \* tokenize: tokens
    tk_pc,        \* tokenize: "loop" (in the finditer loop) or "done"
    original,     \* the ja text before the first wrapping pass
    text,         \* wrap_ja_text: text
    max_len,      \* wrap_ja_text, wrap_segment: max_len
    pass,         \* 1: the first run over a text, 2: a run over its result
    parts,        \* wrap_ja_text: parts
    wrapped_parts, \* wrap_ja_text: wrapped_parts, as far as it is built
    tokens,       \* wrap_segment: tokens
    tok_idx,      \* wrap_segment: index of the loop's next token
    pack,         \* wrap_segment: lines, current, current_display
    wrapped,      \* wrap_ja_text: wrapped
    changed,      \* wrap_ja_text: the flag it returns
    w_pc,         \* wrap_ja_text: "call", "parts", "pack" or "done"
    file_orig,    \* auto-wrap driver: the rows of the file before the run
    file_rows,    \* auto-wrap driver: the rows of the file at filepath
    fieldnames,   \* auto-wrap driver: fieldnames
    rows,         \* auto-wrap driver: rows
    row_idx,      \* auto-wrap driver: index of the loop's next row
    rows_changed, \* auto-wrap driver: rows_changed
    wraps_added,  \* auto-wrap driver: wraps_added
    dry_run,      \* auto-wrap driver: dry_run
    p_max_len,    \* auto-wrap driver: max_len
    p_pc,         \* auto-wrap driver: "open", "rows" or "done"
    base_file,    \* merge: the table at base_path, [fieldnames, rows]
    out_file,     \* merge: the table at output_path when it is another file
    inplace,      \* merge: output_path is base_path
    translated,   \* merge: the table read from translated_path
    translated_index, \* merge: translated_index
    base_rows,    \* merge: base_rows as read
    m_idx,        \* merge: index of the loop's next base row
    merged,       \* merge: merged
    skipped,      \* merge: skipped
    m_pc,         \* merge: "call", "rows", "returned0" (an early return) or "done"
    retries,      \* translate_text: retries
    attempt,      \* translate_text: attempt
    calls,        \* translate_text: the remote calls made, each with its outcome
    sleeps,       \* translate_text: the time.sleep(sleep_sec) calls made
    last_error,   \* translate_text: last_error
    t_result,     \* translate_text: the value returned or the error raised
    t_pc,         \* translate_text: "attempt", "sleep", "returned" or "raised"
    csv_files,    \* fetch driver: the input tables, in the order of csv_files
    out_files,    \* fetch driver: the files of output_dir, one per input file
    max_workers,  \* fetch driver: max_workers of the executor
    f_max_rows,   \* fetch driver: max_rows
    report_targets, \* fetch driver: report_targets of each file (a set of
                  \* keys), or NoTargets
    submitted,    \* fetch driver: tasks handed to executor.submit so far
    task_pc,      \* each task: "pending", "rows", "request", "finished",
                  \* "collected" (its future was taken by as_completed)
    f_rows,       \* process_file of each task: rows
    f_idx,        \* process_file of each task: index of the loop's row
    translated_rows, \* process_file of each task: translated_rows
    failed_rows,  \* process_file of each task: failed_rows
    requests,     \* each task: its calls of translate_text in order, each
                  \* with the row's index and how it ended: "in flight",
                  \* "kept", "dropped" (the result was too long) or "raised"
    total_translated, \* fetch driver: total_translated
    total_failed  \* fetch driver: total_failed

tokVars == <<tk_text, tk_pos, tk_tokens, tk_pc>>

wrapVars == <<original, text, max_len, pass, parts, wrapped_parts, tokens,
              tok_idx, pack, wrapped, changed, w_pc>>

driverVars == <<file_orig, file_rows, fieldnames, rows, row_idx,
                rows_changed, wraps_added, dry_run, p_max_len, p_pc>>

mergeVars == <<base_file, out_file, inplace, translated, translated_index,
               base_rows, m_idx, merged, skipped, m_pc>>

translateVars == <<retries, attempt, calls, sleeps, last_error, t_result,
                   t_pc>>

fetchVars == <<csv_files, out_files, max_workers, f_max_rows, report_targets,
               submitted, task_pc, f_rows, f_idx, translated_rows,
               failed_rows, requests, total_translated, total_failed>>

vars == <<tokVars, wrapVars, driverVars, mergeVars, translateVars, fetchVars>>

\* ------------------------------------------------------------------------
\* Inputs
\* ------------------------------------------------------------------------

RECURSIVE Texts(_, _)
\* The concatenations of at most n pieces.
Texts(pieces, n) ==
    IF n = 0 THEN {<<>>}
    ELSE LET prev == Texts(pieces, n - 1)
         IN  prev \cup {t \o p : t \in prev, p \in pieces}

TokPieces ==
    {<<"[">>, <<"]">>, <<"{">>, <<"}">>, <<"&">>, <<";">>, <<":">>,
     <<"a">>, <<"_">>, <<"[", "i", "m", "g", ":">>}

TokTexts == Texts(TokPieces, MaxTokPieces)

\* ------------------------------------------------------------------------
\* The tokenizer, one loop iteration at a time
\* ------------------------------------------------------------------------

TokIdle ==
    /\ tk_text = <<>>
    /\ tk_pos = 0
    /\ tk_tokens = <<>>
    /\ tk_pc = "idle"

WrapIdle ==
    /\ original = <<>>
    /\ text = <<>>
    /\ max_len = 1
    /\ pass = 1
    /\ parts = <<>>
    /\ wrapped_parts = <<>>
    /\ tokens = <<>>
    /\ tok_idx = 1
    /\ pack = PackInit
    /\ wrapped = <<>>
    /\ changed = FALSE
    /\ w_pc = "idle"

DriverIdle ==
    /\ file_orig = <<>>
    /\ file_rows = <<>>
    /\ fieldnames = <<>>
    /\ rows = <<>>
    /\ row_idx = 1
    /\ rows_changed = 0
    /\ wraps_added = 0
    /\ dry_run = FALSE
    /\ p_max_len = 1
    /\ p_pc = "idle"

NoTable == [fieldnames |-> <<>>, rows |-> <<>>]

NoFile == [exists |-> FALSE, fieldnames |-> <<>>, rows |-> <<>>]

MergeIdle ==
    /\ base_file = NoTable
    /\ out_file = NoFile
    /\ inplace = FALSE
    /\ translated = NoTable
    /\ translated_index = <<>>
    /\ base_rows = <<>>
    /\ m_idx = 1
    /\ merged = 0
    /\ skipped = 0
    /\ m_pc = "idle"

TranslateIdle ==
    /\ retries = 0
    /\ attempt = 0
    /\ calls = <<>>
    /\ sleeps = 0
    /\ last_error = ""
    /\ t_result = <<>>
    /\ t_pc = "idle"

\* report_targets is None: every row of the file is scanned
NoTargets == [given |-> FALSE, keys |-> {}]

FetchIdle ==
    /\ csv_files = <<>>
    /\ out_files = <<>>
    /\ max_workers = 1
    /\ f_max_rows = 0
    /\ report_targets = <<>>
    /\ submitted = 0
    /\ task_pc = <<>>
    /\ f_rows = <<>>
    /\ f_idx = <<>>
    /\ translated_rows = <<>>
    /\ failed_rows = <<>>
    /\ requests = <<>>
    /\ total_translated = 0
    /\ total_failed = 0

InitTok ==
    /\ tk_text \in TokTexts
    /\ tk_pos = 0
    /\ tk_tokens = <<>>
    /\ tk_pc = "loop"
    /\ WrapIdle
    /\ DriverIdle
    /\ MergeIdle
    /\ TranslateIdle
    /\ FetchIdle

\* One iteration of  for m in combined.finditer(text)
TokMatch ==
    /\ tk_pc = "loop"
    /\ NextMatch(tk_text, tk_pos + 1).g # 0
    /\ LET m == NextMatch(tk_text, tk_pos + 1)
       IN  /\ tk_tokens' = TokMatchStep(tk_text, tk_pos, tk_tokens, m)
           /\ tk_pos' = m.e - 1
    /\ UNCHANGED <<tk_text, tk_pc>>
    /\ UNCHANGED <<wrapVars, driverVars, mergeVars, translateVars, fetchVars>>

\* The loop is over: the remaining plain text, and return
TokReturn ==
    /\ tk_pc = "loop"
    /\ NextMatch(tk_text, tk_pos + 1).g = 0
    /\ tk_tokens' = TokRemaining(tk_text, tk_pos, tk_tokens)
    /\ tk_pc' = "done"
    /\ UNCHANGED <<tk_text, tk_pos>>
    /\ UNCHANGED <<wrapVars, driverVars, mergeVars, translateVars, fetchVars>>

NextTok ==
    \/ TokMatch
    \/ TokReturn

SpecTok == InitTok /\ [][NextTok]_vars

\* ------------------------------------------------------------------------
\* wrap_ja_text, one step at a time
\* ------------------------------------------------------------------------

WrapPieces ==
    {<<"a">>, <<"_">>, <<"[">>, <<LF>>,
     <<"[", "a", "]">>, <<"{", "a", "}">>, <<"&", "a", ";">>,
     <<"[", "i", "m", "g", ":", "a", "]">>}

WrapTexts == Texts(WrapPieces, MaxWrapPieces)

InitWrap ==
    /\ text \in WrapTexts
    /\ original = text
    /\ max_len \in 1..MaxWidth
    /\ pass = 1
    /\ parts = <<>>
    /\ wrapped_parts = <<>>
    /\ tokens = <<>>
    /\ tok_idx = 1
    /\ pack = PackInit
    /\ wrapped = <<>>
    /\ changed = FALSE
    /\ w_pc = "call"
    /\ TokIdle
    /\ DriverIdle
    /\ MergeIdle
    /\ TranslateIdle
    /\ FetchIdle

\* wrap_ja_text is entered: the empty text returns at once, any other is split
WrapEnter ==
    /\ w_pc = "call"
    /\ IF text = <<>>
       THEN /\ wrapped' = text
            /\ changed' = FALSE
            /\ w_pc' = "done"
            /\ UNCHANGED parts
       ELSE /\ parts' = SplitParts(text)
            /\ w_pc' = "parts"
            /\ UNCHANGED <<wrapped, changed>>
    /\ wrapped_parts' = <<>>
    /\ UNCHANGED <<original, text, max_len, pass, tokens, tok_idx, pack>>
    /\ UNCHANGED <<tokVars, driverVars, mergeVars, translateVars, fetchVars>>

\* wrap_segment on the next part, whose total width is within max_len: the
\* part is returned as it is
SegmentFits ==
    /\ w_pc = "parts"
    /\ Len(wrapped_parts) < Len(parts)
    /\ LET seg == parts[Len(wrapped_parts) + 1]
       IN  /\ TotalWidth(Tokenize(seg)) <= max_len
           /\ tokens' = Tokenize(seg)
           /\ wrapped_parts' = Append(wrapped_parts, seg)
    /\ UNCHANGED <<original, text, max_len, pass, parts, tok_idx, pack,
                   wrapped, changed, w_pc>>
    /\ UNCHANGED <<tokVars, driverVars, mergeVars, translateVars, fetchVars>>

\* wrap_segment on the next part, which is too wide: the packing loop starts
SegmentPackStart ==
    /\ w_pc = "parts"
    /\ Len(wrapped_parts) < Len(parts)
    /\ LET seg == parts[Len(wrapped_parts) + 1]
       IN  /\ TotalWidth(Tokenize(seg)) > max_len
           /\ tokens' = Tokenize(seg)
    /\ tok_idx' = 1
    /\ pack' = PackInit
    /\ w_pc' = "pack"
    /\ UNCHANGED <<original, text, max_len, pass, parts, wrapped_parts,
                   wrapped, changed>>
    /\ UNCHANGED <<tokVars, driverVars, mergeVars, translateVars, fetchVars>>

\* One iteration of the packing loop
PackStep ==
    /\ w_pc = "pack"
    /\ tok_idx <= Len(tokens)
    /\ pack' = PackToken(pack, tokens[tok_idx], max_len)
    /\ tok_idx' = tok_idx + 1
    /\ UNCHANGED <<original, text, max_len, pass, parts, wrapped_parts,
                   tokens, wrapped, changed, w_pc>>
    /\ UNCHANGED <<tokVars, driverVars, mergeVars, translateVars, fetchVars>>

\* The packing loop is over: the last line is added and the lines are joined
SegmentPackReturn ==
    /\ w_pc = "pack"
    /\ tok_idx > Len(tokens)
    /\ wrapped_parts' = Append(wrapped_parts, Join(PackLines(pack)))
    /\ w_pc' = "parts"
    /\ UNCHANGED <<original, text, max_len, pass, parts, tokens, tok_idx,
                   pack, wrapped, changed>>
    /\ UNCHANGED <<tokVars, driverVars, mergeVars, translateVars, fetchVars>>

\* Every part is wrapped: wrap_ja_text joins them and returns
WrapReturn ==
    /\ w_pc = "parts"
    /\ Len(wrapped_parts) = Len(parts)
    /\ wrapped' = Join(wrapped_parts)
    /\ changed' = (Join(wrapped_parts) # text)
    /\ w_pc' = "done"
    /\ UNCHANGED <<original, text, max_len, pass, parts, wrapped_parts,
                   tokens, tok_idx, pack>>
    /\ UNCHANGED <<tokVars, driverVars, mergeVars, translateVars, fetchVars>>

\* The script is run again, with the same max_len, over the text the first
\* run stored
WrapAgain ==
    /\ w_pc = "done"
    /\ pass = 1
    /\ text' = wrapped
    /\ pass' = 2
    /\ parts' = <<>>
    /\ wrapped_parts' = <<>>
    /\ tokens' = <<>>
    /\ tok_idx' = 1
    /\ pack' = PackInit
    /\ wrapped' = <<>>
    /\ changed' = FALSE
    /\ w_pc' = "call"
    /\ UNCHANGED <<original, max_len>>
    /\ UNCHANGED <<tokVars, driverVars, mergeVars, translateVars, fetchVars>>

NextWrap ==
    \/ WrapEnter
    \/ SegmentFits
    \/ SegmentPackStart
    \/ PackStep
    \/ SegmentPackReturn
    \/ WrapReturn
    \/ WrapAgain

SpecWrap == InitWrap /\ [][NextWrap]_vars

\* ------------------------------------------------------------------------
\* process_file of auto_wrap_ja.py
\* ------------------------------------------------------------------------

\* A row is a function from the file's field names to cells; a cell is a str.

Whitespace == {" ", LF}

RECURSIVE LStrip(_)
LStrip(t) ==
    IF t # <<>> /\ Head(t) \in Whitespace THEN LStrip(Tail(t)) ELSE t

RECURSIVE RStrip(_)
RStrip(t) ==
    IF t # <<>> /\ t[Len(t)] \in Whitespace
    THEN RStrip(SubSeq(t, 1, Len(t) - 1))
    ELSE t

\* str.strip()
Strip(t) == RStrip(LStrip(t))

\* row.get(name) or ""
GetOrEmpty(row, name) == IF name \in DOMAIN row THEN row[name] ELSE <<>>

\* key.startswith("//")
IsCommentKey(key) == Len(key) >= 2 /\ key[1] = "/" /\ key[2] = "/"

\* text.count("\n")
CountLF(t) == Cardinality({q \in 1..Len(t) : t[q] = LF})

InFieldnames(name, names) == \E k \in 1..Len(names) : names[k] = name

\* A variant that looks only at the ja cell.
RowIsWrappedIgnoresKey(row) == GetOrEmpty(row, "ja") # <<>>

\* The loop body's two guards: the row is handed to wrap_ja_text when its
\* stripped KEY is not empty and no comment marker, and its ja cell is not
\* empty.
RowIsWrapped(row) ==
    LET key == Strip(GetOrEmpty(row, "KEY"))
    IN  /\ ~(key = <<>> \/ IsCommentKey(key))
        /\ GetOrEmpty(row, "ja") # <<>>

DriverKeys == {<<>>, <<" ", "/", "/">>, <<"a">>}

DriverOtherCells == {<<>>, <<"a">>}

DriverJaCells == {<<>>, <<"_", "_">>, <<"_", "_", "_">>}

DriverFieldnames == {<<"KEY", "en", "ja">>, <<"KEY", "en">>}

\* The rows of a file with the given field names.
DriverRows(names) ==
    IF InFieldnames("ja", names)
    THEN {[KEY |-> k, en |-> e, ja |-> j] :
             k \in DriverKeys, e \in DriverOtherCells, j \in DriverJaCells}
    ELSE {[KEY |-> k, en |-> e] : k \in DriverKeys, e \in DriverOtherCells}

Tables(rowSet) == UNION {[1..n -> rowSet] : n \in 0..MaxRows}

InitDriver ==
    /\ fieldnames \in DriverFieldnames
    /\ file_rows \in Tables(DriverRows(fieldnames))
    /\ file_orig = file_rows
    /\ rows = <<>>
    /\ row_idx = 1
    /\ rows_changed = 0
    /\ wraps_added = 0
    /\ dry_run \in BOOLEAN
    /\ p_max_len \in 1..MaxWidth
    /\ p_pc = "open"
    /\ TokIdle
    /\ WrapIdle
    /\ MergeIdle
    /\ TranslateIdle
    /\ FetchIdle

\* The file is read; without a ja column process_file returns (0, 0)
DriverRead ==
    /\ p_pc = "open"
    /\ rows' = file_rows
    /\ p_pc' = IF InFieldnames("ja", fieldnames) THEN "rows" ELSE "done"
    /\ UNCHANGED <<file_orig, file_rows, fieldnames, row_idx, rows_changed,
                   wraps_added, dry_run, p_max_len>>
    /\ UNCHANGED <<tokVars, wrapVars, mergeVars, translateVars, fetchVars>>

\* One iteration of  for row in rows
DriverRow ==
    /\ p_pc = "rows"
    /\ row_idx <= Len(rows)
    /\ LET row == rows[row_idx]
           res == WrapJaText(GetOrEmpty(row, "ja"), p_max_len)
       IN  IF RowIsWrapped(row) /\ res.changed
           THEN /\ rows' = [rows EXCEPT ![row_idx]["ja"] = res.text]
                /\ rows_changed' = rows_changed + 1
                /\ wraps_added' = wraps_added + CountLF(res.text)
                                              - CountLF(row["ja"])
           ELSE UNCHANGED <<rows, rows_changed, wraps_added>>
    /\ row_idx' = row_idx + 1
    /\ UNCHANGED <<file_orig, file_rows, fieldnames, dry_run, p_max_len, p_pc>>
    /\ UNCHANGED <<tokVars, wrapVars, mergeVars, translateVars, fetchVars>>

\* The loop is over: the file is rewritten unless dry_run or nothing changed
DriverWrite ==
    /\ p_pc = "rows"
    /\ row_idx > Len(rows)
    /\ file_rows' = IF ~dry_run /\ rows_changed > 0 THEN rows ELSE file_rows
    /\ p_pc' = "done"
    /\ UNCHANGED <<file_orig, fieldnames, rows, row_idx, rows_changed,
                   wraps_added, dry_run, p_max_len>>
    /\ UNCHANGED <<tokVars, wrapVars, mergeVars, translateVars, fetchVars>>

NextDriver ==
    \/ DriverRead
    \/ DriverRow
    \/ DriverWrite

SpecDriver == InitDriver /\ [][NextDriver]_vars

\* ------------------------------------------------------------------------
\* merge_file of merge_translated.py (target_col is "ja")
\* ------------------------------------------------------------------------

\* normalize_text(value)
NormalizeText(value) == Strip(value)

RECURSIVE BuildIndex(_, _)
\* The loop that fills translated_index: a later row of the same key replaces
\* an earlier one.  The index is a function from the stripped keys to values.
BuildIndex(trows, index) ==
    IF trows = <<>> THEN index
    ELSE LET row == Head(trows)
             key == NormalizeText(GetOrEmpty(row, "KEY"))
             value == GetOrEmpty(row, "ja")
         IN  BuildIndex(Tail(trows),
                 IF key # <<>> /\ NormalizeText(value) # <<>>
                 THEN [k \in DOMAIN index \cup {key} |->
                          IF k = key THEN value ELSE index[k]]
                 ELSE index)

\* A variant of the loop body that takes the translated value whenever the key
\* is in the index.
MergeRowValueClobbers(row, index) ==
    LET key == NormalizeText(GetOrEmpty(row, "KEY"))
    IN  IF key \in DOMAIN index
        THEN [row EXCEPT !["ja"] = index[key]]
        ELSE row

\* The row the loop body writes for a base row.
MergeRowValue(row, index) ==
    LET key == NormalizeText(GetOrEmpty(row, "KEY"))
        current_value == NormalizeText(GetOrEmpty(row, "ja"))
    IN  IF key \in DOMAIN index /\ current_value = <<>>
        THEN [row EXCEPT !["ja"] = index[key]]
        ELSE row

MergeTables(names, rowSet) ==
    {[fieldnames |-> names, rows |-> r] :
        r \in UNION {[1..n -> rowSet] : n \in 0..MaxMergeRows}}

BaseTables ==
    MergeTables(<<"KEY", "en", "ja">>,
                {[KEY |-> <<"a">>, en |-> <<"a">>, ja |-> <<>>],
                 [KEY |-> <<"a">>, en |-> <<"a">>, ja |-> <<" ">>],
                 [KEY |-> <<"a">>, en |-> <<"a">>, ja |-> <<"_">>],
                 [KEY |-> <<"g">>, en |-> <<"a">>, ja |-> <<>>]})
    \cup {[fieldnames |-> <<"KEY", "en">>,
           rows |-> <<[KEY |-> <<"a">>, en |-> <<"a">>]>>]}

TranslatedTables ==
    MergeTables(<<"KEY", "ja">>,
                {[KEY |-> <<"a">>, ja |-> <<"m">>],
                 [KEY |-> <<"a">>, ja |-> <<"i">>],
                 [KEY |-> <<"a">>, ja |-> <<" ">>],
                 [KEY |-> <<"g", " ">>, ja |-> <<"i">>]})
    \cup {[fieldnames |-> <<"KEY">>, rows |-> <<[KEY |-> <<"a">>]>>],
          [fieldnames |-> <<"ja">>, rows |-> <<[ja |-> <<"m">>]>>]}

InitMerge ==
    /\ base_file \in BaseTables
    /\ out_file = NoFile
    /\ inplace \in BOOLEAN
    /\ translated = NoTable
    /\ translated_index = <<>>
    /\ base_rows = <<>>
    /\ m_idx = 1
    /\ merged = 0
    /\ skipped = 0
    /\ m_pc = "call"
    /\ TokIdle
    /\ WrapIdle
    /\ DriverIdle
    /\ TranslateIdle
    /\ FetchIdle

\* merge_file up to the loop over the base rows: the translated table is read
\* and indexed, the base table is read, the output file is opened (truncated)
\* and its header written; each early return leaves every file as it is.  A
\* run follows another when the base files are merged in place.
MergeOpen ==
    /\ m_pc = "call" \/ (m_pc \in {"returned0", "done"} /\ inplace)
    /\ \E tr \in TranslatedTables :
          LET index == BuildIndex(tr.rows, <<>>)
              early == \/ ~InFieldnames("KEY", tr.fieldnames)
                       \/ ~InFieldnames("ja", tr.fieldnames)
                       \/ DOMAIN index = {}
                       \/ ~InFieldnames("ja", base_file.fieldnames)
          IN  /\ translated' = tr
              /\ translated_index' = index
              /\ IF early
                 THEN /\ m_pc' = "returned0"
                      /\ base_rows' = <<>>
                      /\ UNCHANGED <<base_file, out_file>>
                 ELSE /\ m_pc' = "rows"
                      /\ base_rows' = base_file.rows
                      /\ IF inplace
                         THEN /\ base_file' = [base_file EXCEPT !.rows = <<>>]
                              /\ UNCHANGED out_file
                         ELSE /\ out_file' =
                                    [exists |-> TRUE,
                                     fieldnames |-> base_file.fieldnames,
                                     rows |-> <<>>]
                              /\ UNCHANGED base_file
    /\ m_idx' = 1
    /\ merged' = 0
    /\ skipped' = 0
    /\ UNCHANGED inplace
    /\ UNCHANGED <<tokVars, wrapVars, driverVars, translateVars, fetchVars>>

\* One iteration of  for row in base_rows, with its writer.writerow(row)
MergeRow ==
    /\ m_pc = "rows"
    /\ m_idx <= Len(base_rows)
    /\ LET row == base_rows[m_idx]
           key == NormalizeText(GetOrEmpty(row, "KEY"))
           current_value == NormalizeText(GetOrEmpty(row, "ja"))
           written == MergeRowValue(row, translated_index)
       IN  /\ merged' = IF key \in DOMAIN translated_index
                           /\ current_value = <<>>
                        THEN merged + 1 ELSE merged
           /\ skipped' = IF key \in DOMAIN translated_index
                            /\ current_value # <<>>
                         THEN skipped + 1 ELSE skipped
           /\ IF inplace
              THEN /\ base_file' =
                         [base_file EXCEPT !.rows = Append(@, written)]
                   /\ UNCHANGED out_file
              ELSE /\ out_file' =
                         [out_file EXCEPT !.rows = Append(@, written)]
                   /\ UNCHANGED base_file
    /\ m_idx' = m_idx + 1
    /\ UNCHANGED <<inplace, translated, translated_index, base_rows, m_pc>>
    /\ UNCHANGED <<tokVars, wrapVars, driverVars, translateVars, fetchVars>>

\* The loop is over: the output file is closed and (merged, skipped) returned
MergeReturn ==
    /\ m_pc = "rows"
    /\ m_idx > Len(base_rows)
    /\ m_pc' = "done"
    /\ UNCHANGED <<base_file, out_file, inplace, translated,
                   translated_index, base_rows, m_idx, merged, skipped>>
    /\ UNCHANGED <<tokVars, wrapVars, driverVars, translateVars, fetchVars>>

NextMerge ==
    \/ MergeOpen
    \/ MergeRow
    \/ MergeReturn

SpecMerge == InitMerge /\ [][NextMerge]_vars

\* ------------------------------------------------------------------------
\* translate_text of ai_translate_missing_ja.py: the retry loop
\* ------------------------------------------------------------------------

\* Three backquotes.
Fence == <<"'", "'", "'">>

\* re.sub(r"^```[a-zA-Z]*\n", "", s): an opening fence line at the start
StripOpeningFence(t) ==
    IF Len(t) >= 3 /\ SubSeq(t, 1, 3) = Fence
    THEN LET e == RunEnd(t, 4, AsciiAlnum)
         IN  IF e <= Len(t) /\ t[e] = LF
             THEN SubSeq(t, e + 1, Len(t))
             ELSE t
    ELSE t

\* re.sub(r"\n```$", "", s): a closing fence line at the end
StripClosingFence(t) ==
    IF Len(t) >= 4 /\ SubSeq(t, Len(t) - 3, Len(t)) = <<LF>> \o Fence
    THEN SubSeq(t, 1, Len(t) - 4)
    ELSE t

\* sanitize_model_output(text)
SanitizeModelOutput(t) == Strip(StripClosingFence(StripOpeningFence(Strip(t))))

\* The outcomes of call_openai_chat: the message content of the response
\* (empty when the response has no choices), an HTTPError, or any other
\* exception, whose str(e) may be empty.
CallOutcomes ==
    {[kind |-> "content", content |-> c] :
        c \in {<<>>, <<" ">>, <<"_">>,
               Fence \o <<LF, "_", LF>> \o Fence,
               Fence \o <<"a", LF, LF>> \o Fence,
               Fence}}
    \cup {[kind |-> "http", content |-> <<>>]}
    \cup {[kind |-> "exception", content |-> c] : c \in {<<>>, <<"a">>}}

\* The text translate_text gets from a call that did not raise:
\* call_openai_chat returns content.strip(), which is then sanitized.
CallResult(outcome) == SanitizeModelOutput(Strip(outcome.content))

\* The attempt gave nothing to return: the call raised, or its sanitized
\* result is empty.
AttemptFailed(outcome) ==
    outcome.kind # "content" \/ CallResult(outcome) = <<>>

\* last_error after the attempt
ErrorAfter(outcome, before) ==
    CASE outcome.kind = "http" -> "HTTP"
      [] outcome.kind = "exception" ->
            IF outcome.content = <<>> THEN "" ELSE "error"
      [] OTHER -> before

\* A variant with one attempt too few.
AttemptsOneShort(r) == r

\* range(retries + 1): the number of attempts
Attempts(r) == r + 1

InitTranslate ==
    /\ retries \in 0..MaxRetries
    /\ attempt = 0
    /\ calls = <<>>
    /\ sleeps = 0
    /\ last_error = ""
    /\ t_result = <<>>
    /\ t_pc = "attempt"
    /\ TokIdle
    /\ WrapIdle
    /\ DriverIdle
    /\ MergeIdle
    /\ FetchIdle

\* One attempt: the remote call and what follows it up to the sleep
TranslateAttempt ==
    /\ t_pc = "attempt"
    /\ attempt < Attempts(retries)
    /\ \E outcome \in CallOutcomes :
          /\ calls' = Append(calls, outcome)
          /\ IF ~AttemptFailed(outcome)
             THEN /\ t_result' = CallResult(outcome)
                  /\ t_pc' = "returned"
                  /\ UNCHANGED <<attempt, last_error>>
             ELSE /\ last_error' = ErrorAfter(outcome, last_error)
                  /\ IF attempt < retries
                     THEN t_pc' = "sleep" /\ UNCHANGED attempt
                     ELSE t_pc' = "attempt" /\ attempt' = attempt + 1
                  /\ UNCHANGED t_result
    /\ UNCHANGED <<retries, sleeps>>
    /\ UNCHANGED <<tokVars, wrapVars, driverVars, mergeVars, fetchVars>>

\* time.sleep(sleep_sec), then the next attempt
TranslateSleep ==
    /\ t_pc = "sleep"
    /\ sleeps' = sleeps + 1
    /\ attempt' = attempt + 1
    /\ t_pc' = "attempt"
    /\ UNCHANGED <<retries, calls, last_error, t_result>>
    /\ UNCHANGED <<tokVars, wrapVars, driverVars, mergeVars, fetchVars>>

\* The loop is over: raise RuntimeError(last_error or "unknown api error")
TranslateRaise ==
    /\ t_pc = "attempt"
    /\ attempt >= Attempts(retries)
    /\ t_pc' = "raised"
    /\ UNCHANGED <<retries, attempt, calls, sleeps, last_error, t_result>>
    /\ UNCHANGED <<tokVars, wrapVars, driverVars, mergeVars, fetchVars>>

NextTranslate ==
    \/ TranslateAttempt
    \/ TranslateSleep
    \/ TranslateRaise

SpecTranslate == InitTranslate /\ [][NextTranslate]_vars

\* Every remote call ends (urlopen has a timeout) and every sleep ends, so the
\* loop goes on as long as it can.
SpecTranslateFair == SpecTranslate /\ WF_vars(NextTranslate)

\* ------------------------------------------------------------------------
\* ai_translate_missing_ja.py: process_file and the worker pool of main
\* (target_col is "ja")
\* ------------------------------------------------------------------------

\* Files of the input directory.
MaxFiles == 2

\* Rows of an input file.
MaxFetchRows == 2

\* TAG_OR_VAR_PATTERN tried at index p: the index after the match, or 0.
\* \[img:[^\]]+\] matches only where \[[^\]]+\] matches the same characters.
TagOrVarEnd(t, p) ==
    LET tag == PatEnd(t, p, <<"[">>, Chars \ {"]"}, "]")
        var == IF p + 1 <= Len(t) /\ t[p] = "{" /\ t[p + 1] = "}"
               THEN p + 2
               ELSE PatEnd(t, p, <<"{">>, NotBrace, "}")
        nbsp == <<"&", "n", "b", "s", "p", ";">>
    IN  IF tag # 0 THEN tag
        ELSE IF var # 0 THEN var
        ELSE IF p + 5 <= Len(t) /\ SubSeq(t, p, p + 5) = nbsp THEN p + 6
        ELSE 0

RECURSIVE RemoveTagOrVar(_, _)
\* TAG_OR_VAR_PATTERN.sub("", t), from index p on
RemoveTagOrVar(t, p) ==
    IF p > Len(t) THEN <<>>
    ELSE IF TagOrVarEnd(t, p) # 0 THEN RemoveTagOrVar(t, TagOrVarEnd(t, p))
    ELSE <<t[p]>> \o RemoveTagOrVar(t, p + 1)

\* ALNUM_PATTERN: [A-Za-z0-9], Latin letters with diacritics, CJK ideographs
FetchAlnum == AsciiAlnum \cup {"_"}

\* is_symbolic_or_tag_only(text).  The strings of the model hold no backslash,
\* so replace("\\n", "") finds nothing to remove.
IsSymbolicOrTagOnly(t) ==
    LET normalized == NormalizeText(t)
        stripped == Strip(SelectSeq(RemoveTagOrVar(normalized, 1),
                                    LAMBDA ch : ch # LF))
    IN  /\ normalized # <<>>
        /\ \A k \in 1..Len(stripped) : stripped[k] \notin FetchAlnum

\* is_missing_translation(en_text, target_text)
IsMissingTranslation(en_text, target_text) ==
    LET en_norm == NormalizeText(en_text)
        target_norm == NormalizeText(target_text)
    IN  /\ en_norm # <<>>
        /\ (target_norm = <<>> \/ target_norm = en_norm)

\* should_skip_row(row)
ShouldSkipRow(row) ==
    \/ IsCommentKey(NormalizeText(GetOrEmpty(row, "KEY")))
    \/ \A c \in DOMAIN row : NormalizeText(row[c]) = <<>>

\* A variant of the loop's guards that asks for a translation of every row
\* with an English text.
NeedsRequestAnyTarget(row, targets, max_rows, done) ==
    /\ ~ShouldSkipRow(row)
    /\ NormalizeText(GetOrEmpty(row, "en")) # <<>>
    /\ (max_rows <= 0 \/ done < max_rows)

\* The guards of the loop body down to the call of translate_text: the row is
\* no comment or blank row, is a target of the report (when there is one), has
\* an English text that is not symbols or tags only, lacks its translation,
\* and the file's limit is not reached (done is translated_rows).
NeedsRequest(row, targets, max_rows, done) ==
    /\ ~ShouldSkipRow(row)
    /\ (~targets.given
            \/ NormalizeText(GetOrEmpty(row, "KEY")) \in targets.keys)
    /\ ~IsSymbolicOrTagOnly(GetOrEmpty(row, "en"))
    /\ IsMissingTranslation(GetOrEmpty(row, "en"), GetOrEmpty(row, "ja"))
    /\ (max_rows <= 0 \/ done < max_rows)

\* A model output longer than every limit the rows of the model give.
LongOutput == [k \in 1..101 |-> "m"]

\* What a call of translate_text does: it returns a sanitized result that is
\* not empty (a short one, or a long one), or raises after its last attempt
\* failed.
TranslateTextOutcomes ==
    {[kind |-> "return", text |-> t] : t \in {<<"_">>, LongOutput}}
    \cup {[kind |-> "raise", text |-> <<>>]}

\* The translated text is kept: it is not longer than max(len(en_text) * 3, 100)
OutputKept(row, outcome) ==
    /\ outcome.kind = "return"
    /\ outcome.text # <<>>
    /\ ~(Len(outcome.text) > Max({Len(GetOrEmpty(row, "en")) * 3, 100}))

\* A variant in which a failed request empties the target cell.
RowAfterFailureClears(row, outcome) ==
    IF OutputKept(row, outcome) THEN [row EXCEPT !["ja"] = outcome.text]
    ELSE IF outcome.kind = "raise" THEN [row EXCEPT !["ja"] = <<>>]
    ELSE row

\* The row as it is written after translate_text returned or raised
RowAfter(row, outcome) ==
    IF OutputKept(row, outcome) THEN [row EXCEPT !["ja"] = outcome.text]
    ELSE row

\* The rows of the input files: KEY, en, ja
FetchRowKinds ==
    {[KEY |-> <<"a">>, en |-> <<"a">>, ja |-> <<>>],
     [KEY |-> <<"g">>, en |-> <<"a">>, ja |-> <<"a", " ">>],
     [KEY |-> <<"a">>, en |-> <<"a">>, ja |-> <<"_">>],
     [KEY |-> <<"/", "/">>, en |-> <<"a">>, ja |-> <<>>],
     [KEY |-> <<"a">>, en |-> <<" ">>, ja |-> <<>>],
     [KEY |-> <<"a">>, en |-> <<"[", "a", "]">>, ja |-> <<>>]}

\* The input directory holds one file: every table of at most MaxFetchRows
\* rows, and a table without the target column.
FileInputs ==
    {<<[fieldnames |-> <<"KEY", "en", "ja">>, rows |-> r]>> :
        r \in UNION {[1..n -> FetchRowKinds] : n \in 0..MaxFetchRows}}
    \cup {<<[fieldnames |-> <<"KEY", "en">>,
             rows |-> <<[KEY |-> <<"a">>, en |-> <<"a">>]>>]>>}

\* The tables of a directory of several files.
PoolTables ==
    {[fieldnames |-> <<"KEY", "en", "ja">>,
      rows |-> <<[KEY |-> <<"a">>, en |-> <<"a">>, ja |-> <<>>],
                 [KEY |-> <<"g">>, en |-> <<"a">>, ja |-> <<"a">>]>>],
     [fieldnames |-> <<"KEY", "en", "ja">>,
      rows |-> <<[KEY |-> <<"a">>, en |-> <<"a">>, ja |-> <<"_">>],
                 [KEY |-> <<"a">>, en |-> <<"a">>, ja |-> <<>>]>>]}

\* The input directory holds no file, or two to MaxFiles files.
PoolInputs ==
    UNION {[1..n -> PoolTables] : n \in (0..MaxFiles) \ {1}}

\* main up to the executor: csv_files is listed, max_workers is args.workers
\* (or the number of processors) capped by the number of files, or 1 when
\* there is none; no task is submitted yet.  A report, when there is one,
\* names the key "a" of the file; the directories of several files are
\* scanned without a report.
InitFetch ==
    /\ \/ /\ csv_files \in FileInputs
          /\ report_targets \in
                {<<NoTargets>>, <<[given |-> TRUE, keys |-> {<<"a">>}]>>}
       \/ /\ csv_files \in PoolInputs
          /\ report_targets = [f \in 1..Len(csv_files) |-> NoTargets]
    /\ \E workers \in 1..(MaxFiles + 1) :
          max_workers = Min({workers, IF Len(csv_files) = 0 THEN 1
                                      ELSE Len(csv_files)})
    /\ f_max_rows \in 0..1
    /\ out_files = [f \in 1..Len(csv_files) |-> NoFile]
    /\ submitted = 0
    /\ task_pc = [f \in 1..Len(csv_files) |-> "pending"]
    /\ f_rows = [f \in 1..Len(csv_files) |-> <<>>]
    /\ f_idx = [f \in 1..Len(csv_files) |-> 1]
    /\ translated_rows = [f \in 1..Len(csv_files) |-> 0]
    /\ failed_rows = [f \in 1..Len(csv_files) |-> 0]
    /\ requests = [f \in 1..Len(csv_files) |-> <<>>]
    /\ total_translated = 0
    /\ total_failed = 0
    /\ TokIdle
    /\ WrapIdle
    /\ DriverIdle
    /\ MergeIdle
    /\ TranslateIdle

\* A variant in which the executor takes no account of its busy threads.
RunningNotCounted == {}

\* The tasks a worker thread of the executor is running
Running == {f \in 1..Len(csv_files) : task_pc[f] \in {"rows", "request"}}

\* The tasks whose call of translate_text has not come back
InFlight == {f \in 1..Len(csv_files) : task_pc[f] = "request"}

\* executor.submit(_process_one, name) for the next name of csv_files
MainSubmit ==
    /\ submitted < Len(csv_files)
    /\ submitted' = submitted + 1
    /\ UNCHANGED <<csv_files, out_files, max_workers, f_max_rows,
                   report_targets, task_pc, f_rows, f_idx, translated_rows,
                   failed_rows, requests, total_translated, total_failed>>
    /\ UNCHANGED <<tokVars, wrapVars, driverVars, mergeVars, translateVars>>

\* A worker thread takes the oldest pending task (the executor has at most
\* max_workers threads and a first-in first-out queue) and runs process_file
\* up to its loop: the input is read; without the en or the target column it
\* is copied to the output and (0, 0) returned; else the output is opened and
\* its header written.
FetchStart(f) ==
    /\ f <= submitted
    /\ task_pc[f] = "pending"
    /\ \A g \in 1..(f - 1) : task_pc[g] # "pending"
    /\ Cardinality(Running) < max_workers
    /\ LET table == csv_files[f]
       IN  IF ~InFieldnames("en", table.fieldnames)
                \/ ~InFieldnames("ja", table.fieldnames)
           THEN /\ out_files' = [out_files EXCEPT ![f] =
                        [exists |-> TRUE, fieldnames |-> table.fieldnames,
                         rows |-> table.rows]]
                /\ task_pc' = [task_pc EXCEPT ![f] = "finished"]
                /\ UNCHANGED f_rows
           ELSE /\ out_files' = [out_files EXCEPT ![f] =
                        [exists |-> TRUE, fieldnames |-> table.fieldnames,
                         rows |-> <<>>]]
                /\ task_pc' = [task_pc EXCEPT ![f] = "rows"]
                /\ f_rows' = [f_rows EXCEPT ![f] = table.rows]
    /\ UNCHANGED <<csv_files, max_workers, f_max_rows, report_targets,
                   submitted, f_idx, translated_rows, failed_rows, requests,
                   total_translated, total_failed>>
    /\ UNCHANGED <<tokVars, wrapVars, driverVars, mergeVars, translateVars>>

\* One iteration of  for row in rows  that does not reach translate_text:
\* the row is written as it is
FetchRow(f) ==
    /\ task_pc[f] = "rows"
    /\ f_idx[f] <= Len(f_rows[f])
    /\ ~NeedsRequest(f_rows[f][f_idx[f]], report_targets[f], f_max_rows,
                     translated_rows[f])
    /\ out_files' =
          [out_files EXCEPT ![f].rows = Append(@, f_rows[f][f_idx[f]])]
    /\ f_idx' = [f_idx EXCEPT ![f] = @ + 1]
    /\ UNCHANGED <<csv_files, max_workers, f_max_rows, report_targets,
                   submitted, task_pc, f_rows, translated_rows, failed_rows,
                   requests, total_translated, total_failed>>
    /\ UNCHANGED <<tokVars, wrapVars, driverVars, mergeVars, translateVars>>

\* An iteration reaches translate_text: the request for the row is in flight
FetchRequest(f) ==
    /\ task_pc[f] = "rows"
    /\ f_idx[f] <= Len(f_rows[f])
    /\ NeedsRequest(f_rows[f][f_idx[f]], report_targets[f], f_max_rows,
                    translated_rows[f])
    /\ task_pc' = [task_pc EXCEPT ![f] = "request"]
    /\ requests' = [requests EXCEPT ![f] =
                        Append(@, [row |-> f_idx[f], result |-> "in flight"])]
    /\ UNCHANGED <<csv_files, out_files, max_workers, f_max_rows,
                   report_targets, submitted, f_rows, f_idx, translated_rows,
                   failed_rows, total_translated, total_failed>>
    /\ UNCHANGED <<tokVars, wrapVars, driverVars, mergeVars, translateVars>>

\* translate_text returns or raises: the rest of the iteration, with its
\* writer.writerow(row)
FetchResponse(f) ==
    /\ task_pc[f] = "request"
    /\ \E outcome \in TranslateTextOutcomes :
          LET row == f_rows[f][f_idx[f]]
              written == RowAfter(row, outcome)
          IN  /\ f_rows' = [f_rows EXCEPT ![f][f_idx[f]] = written]
              /\ translated_rows' =
                    [translated_rows EXCEPT ![f] =
                        IF OutputKept(row, outcome) THEN @ + 1 ELSE @]
              /\ failed_rows' =
                    [failed_rows EXCEPT ![f] =
                        IF outcome.kind = "raise" THEN @ + 1 ELSE @]
              /\ out_files' = [out_files EXCEPT ![f].rows = Append(@, written)]
              /\ requests' =
                    [requests EXCEPT ![f][Len(requests[f])].result =
                        IF OutputKept(row, outcome) THEN "kept"
                        ELSE IF outcome.kind = "raise" THEN "raised"
                        ELSE "dropped"]
    /\ f_idx' = [f_idx EXCEPT ![f] = @ + 1]
    /\ task_pc' = [task_pc EXCEPT ![f] = "rows"]
    /\ UNCHANGED <<csv_files, max_workers, f_max_rows, report_targets,
                   submitted, total_translated, total_failed>>
    /\ UNCHANGED <<tokVars, wrapVars, driverVars, mergeVars, translateVars>>

\* The loop is over: the output is closed, (translated_rows, failed_rows)
\* returned and the future done
FetchReturn(f) ==
    /\ task_pc[f] = "rows"
    /\ f_idx[f] > Len(f_rows[f])
    /\ task_pc' = [task_pc EXCEPT ![f] = "finished"]
    /\ UNCHANGED <<csv_files, out_files, max_workers, f_max_rows,
                   report_targets, submitted, f_rows, f_idx, translated_rows,
                   failed_rows, requests, total_translated, total_failed>>
    /\ UNCHANGED <<tokVars, wrapVars, driverVars, mergeVars, translateVars>>

\* One iteration of  for future in as_completed(futures), which starts when
\* every task is submitted
MainCollect(f) ==
    /\ submitted = Len(csv_files)
    /\ task_pc[f] = "finished"
    /\ total_translated' = total_translated + translated_rows[f]
    /\ total_failed' = total_failed + failed_rows[f]
    /\ task_pc' = [task_pc EXCEPT ![f] = "collected"]
    /\ UNCHANGED <<csv_files, out_files, max_workers, f_max_rows,
                   report_targets, submitted, f_rows, f_idx, translated_rows,
                   failed_rows, requests>>
    /\ UNCHANGED <<tokVars, wrapVars, driverVars, mergeVars, translateVars>>

NextFetch ==
    \/ MainSubmit
    \/ \E f \in 1..Len(csv_files) : FetchStart(f)
    \/ \E f \in 1..Len(csv_files) : FetchRow(f)
    \/ \E f \in 1..Len(csv_files) : FetchRequest(f)
    \/ \E f \in 1..Len(csv_files) : FetchResponse(f)
    \/ \E f \in 1..Len(csv_files) : FetchReturn(f)
    \/ \E f \in 1..Len(csv_files) : MainCollect(f)

SpecFetch == InitFetch /\ [][NextFetch]_vars

\* ------------------------------------------------------------------------
\* Tokenizer properties
\* ------------------------------------------------------------------------

\* C1: concatenating the token texts, in order, gives back the input exactly
\* and no token is empty; inside the loop the tokens so far cover exactly the
\* consumed prefix text[:pos].
C1_TokenizeLossless ==
    /\ \A k \in 1..Len(tk_tokens) : tk_tokens[k].s # <<>>
    /\ tk_pc = "loop" => TokenText(tk_tokens) = SubSeq(tk_text, 1, tk_pos)
    /\ tk_pc = "done" => TokenText(tk_tokens) = tk_text

\* tokenize has returned for an input that starts with an unterminated "[",
\* holds a recognized construct and plain text.
C1_Witness ==
    /\ tk_pc = "done"
    /\ Len(tk_tokens) >= 3
    /\ tk_tokens[1].s = <<"[">>
    /\ \E k \in 1..Len(tk_tokens) : Len(tk_tokens[k].s) > 1

\* The constructs as the specification describes them, by shape.
IsImgShape(str) ==
    /\ Len(str) >= 7
    /\ SubSeq(str, 1, 5) = <<"[", "i", "m", "g", ":">>
    /\ str[Len(str)] = "]"
    /\ \A k \in 6..(Len(str) - 1) : str[k] \in WordChars

IsTagShape(str) ==
    /\ Len(str) >= 3
    /\ str[1] = "["
    /\ str[Len(str)] = "]"
    /\ \A k \in 2..(Len(str) - 1) : str[k] \notin {"[", "]"}

IsVarShape(str) ==
    /\ Len(str) >= 3
    /\ str[1] = "{"
    /\ str[Len(str)] = "}"
    /\ \A k \in 2..(Len(str) - 1) : str[k] \notin {"{", "}"}

IsEntityShape(str) ==
    /\ Len(str) >= 3
    /\ str[1] = "&"
    /\ str[Len(str)] = ";"
    /\ \A k \in 2..(Len(str) - 1) : str[k] \in WordChars

HasShape(kind, str) ==
    CASE kind = 1 -> IsImgShape(str)
      [] kind = 2 -> IsTagShape(str)
      [] kind = 3 -> IsVarShape(str)
      [] kind = 4 -> IsEntityShape(str)

\* The last indices e for which t[p..e] is a construct of the kind.
ShapeEnds(t, p, kind) == {e \in p..Len(t) : HasShape(kind, SubSeq(t, p, e))}

\* The width the specification gives a construct of the kind.
ShapeWidth(kind, str) ==
    CASE kind = 1 -> 1
      [] kind = 2 -> 0
      [] kind = 3 -> Len(str)
      [] kind = 4 -> 1

RECURSIVE Scanner(_, _)
\* The prioritized-alternative scanner from index p: the first kind of
\* construct that matches at p is one token; otherwise a maximal run of ASCII
\* letters and digits is one token of its length, and any other character is
\* a token of width 1.
Scanner(t, p) ==
    IF p > Len(t) THEN <<>>
    ELSE LET kinds == {k \in 1..4 : ShapeEnds(t, p, k) # {}}
         IN  IF kinds # {}
             THEN LET k == Min(kinds)
                      e == Min(ShapeEnds(t, p, k))
                      str == SubSeq(t, p, e)
                  IN  <<Token(str, ShapeWidth(k, str))>> \o Scanner(t, e + 1)
             ELSE IF t[p] \in AsciiAlnum
             THEN LET e == Max({q \in p..Len(t) :
                                  \A k \in p..q : t[k] \in AsciiAlnum})
                  IN  <<Token(SubSeq(t, p, e), e - p + 1)>> \o Scanner(t, e + 1)
             ELSE <<Token(<<t[p]>>, 1)>> \o Scanner(t, p + 1)

IsConstruct(tok) == Len(tok.s) > 1 /\ tok.s[1] \in {"[", "{", "&"}

Closer(c) == CASE c = "[" -> "]" [] c = "{" -> "}" [] c = "&" -> ";"

\* The index in the text of the first character of token k.
TokStart(toks, k) == SumLen([j \in 1..(k - 1) |-> toks[j].s]) + 1

\* Token j is an unterminated opener: one opening character, outside every
\* construct, with no terminator anywhere after it.
IsUnterminatedOpener(t, toks, j) ==
    /\ Len(toks[j].s) = 1
    /\ toks[j].s[1] \in {"[", "{", "&"}
    /\ \A q \in (TokStart(toks, j) + 1)..Len(t) : t[q] # Closer(toks[j].s[1])

\* Token k lies between an unterminated opener and the next construct.
AfterUnterminatedOpener(t, toks, k) ==
    \E j \in 1..k :
        /\ IsUnterminatedOpener(t, toks, j)
        /\ \A i \in j..k : ~IsConstruct(toks[i])

\* C7 as claimed: every character from an unterminated opener to the next
\* construct is its own token of width 1.
C7_Original ==
    tk_pc = "done" =>
        \A k \in 1..Len(tk_tokens) :
            AfterUnterminatedOpener(tk_text, tk_tokens, k) =>
                Len(tk_tokens[k].s) = 1 /\ tk_tokens[k].w = 1

\* A maximal run of ASCII letters and digits of the text, as one token.
IsAlnumRunToken(t, toks, k) ==
    LET from == TokStart(toks, k)
        to == from + Len(toks[k].s) - 1
    IN  /\ \A q \in 1..Len(toks[k].s) : toks[k].s[q] \in AsciiAlnum
        /\ toks[k].w = Len(toks[k].s)
        /\ from > 1 => t[from - 1] \notin AsciiAlnum
        /\ to < Len(t) => t[to + 1] \notin AsciiAlnum

\* C7, amended: from an unterminated opener to the next construct the text is
\* tokenized as plain text: the opener and every other character that is not
\* an ASCII letter or digit is its own token of width 1, and each maximal run
\* of ASCII letters and digits is one token whose width is its length.
C7_MalformedIsPlain ==
    tk_pc = "done" =>
        \A k \in 1..Len(tk_tokens) :
            AfterUnterminatedOpener(tk_text, tk_tokens, k) =>
                \/ /\ Len(tk_tokens[k].s) = 1
                   /\ tk_tokens[k].w = 1
                   /\ tk_tokens[k].s[1] \notin AsciiAlnum
                \/ IsAlnumRunToken(tk_text, tk_tokens, k)

\* tokenize has returned for an unterminated "[" followed by a run of two
\* letters that is one token.
C7_Witness ==
    /\ tk_pc = "done"
    /\ \E k \in 2..Len(tk_tokens) :
          /\ AfterUnterminatedOpener(tk_text, tk_tokens, k)
          /\ Len(tk_tokens[k].s) >= 2

\* ------------------------------------------------------------------------
\* Packer and wrapper properties
\* ------------------------------------------------------------------------

\* The tokens of toks that lie in line j of lines, the lines being laid end
\* to end over the text of toks.
LineToks(toks, ls, j) ==
    LET lo == SumLen(SubSeq(ls, 1, j - 1))
        hi == lo + Len(ls[j])
        K == {k \in 1..Len(toks) :
                /\ TokStart(toks, k) - 1 >= lo
                /\ TokStart(toks, k) - 1 + Len(toks[k].s) <= hi}
    IN  IF K = {} THEN <<>> ELSE SubSeq(toks, Min(K), Max(K))

\* out is the text of seg with line breaks only between two consecutive
\* tokens of tokenize(seg), and nothing else changed.
BreaksBetweenTokens(seg, out) ==
    LET toks == Tokenize(seg)
        ls == Split(out)
    IN  /\ Flatten(ls) = seg
        /\ \A j \in 1..(Len(ls) - 1) :
              \E k \in 1..(Len(toks) - 1) :
                  SumLen(SubSeq(ls, 1, j)) = TokStart(toks, k + 1) - 1

\* C2: the output of wrap_segment is the token sequence of the segment, in
\* order, with line breaks only at boundaries between two consecutive tokens
\* (so none inside a tag, an image tag, a template variable, an entity or an
\* ASCII run), and deleting the breaks gives back the segment; in the loop,
\* the lines and the current line are the tokens consumed so far.
C2_BreaksOnlyBetweenTokens ==
    /\ \A k \in 1..Len(wrapped_parts) :
          BreaksBetweenTokens(parts[k], wrapped_parts[k])
    /\ w_pc = "pack" =>
          Flatten(pack.lines) \o pack.current
              = TokenText(SubSeq(tokens, 1, tok_idx - 1))

\* wrap_segment has returned a segment with an inserted break, and the segment
\* holds a tag, a variable or an entity.
C2_Witness ==
    \E k \in 1..Len(wrapped_parts) :
        /\ wrapped_parts[k] # parts[k]
        /\ \E i \in 1..Len(Tokenize(parts[k])) :
              IsConstruct(Tokenize(parts[k])[i])

\* The line is within max_len, or its only token of positive width is wider
\* than max_len by itself.
LineWithinWidth(lt, m) ==
    \/ TotalWidth(lt) <= m
    \/ /\ Cardinality({k \in 1..Len(lt) : lt[k].w > 0}) = 1
       /\ \E k \in 1..Len(lt) : lt[k].w > m

LinesWithinWidth(toks, ls, m) ==
    \A j \in 1..Len(ls) :
        /\ TokenText(LineToks(toks, ls, j)) = ls[j]
        /\ LineWithinWidth(LineToks(toks, ls, j), m)

\* C3: every line wrap_segment emits has a summed token width <= max_len,
\* except a line whose only token of positive width is wider than max_len;
\* this holds of the lines emitted so far after every iteration of the loop.
C3_LinesWithinWidth ==
    /\ w_pc = "pack" => LinesWithinWidth(tokens, pack.lines, max_len)
    /\ \A k \in 1..Len(wrapped_parts) :
          LinesWithinWidth(Tokenize(parts[k]), Split(wrapped_parts[k]), max_len)

\* The loop has emitted two lines, one of them wider than max_len.
C3_Witness ==
    /\ w_pc = "pack"
    /\ Len(pack.lines) >= 2
    /\ \E j \in 1..Len(pack.lines) :
          TotalWidth(LineToks(tokens, pack.lines, j)) > max_len

\* C4: a second run of wrap_ja_text over the result of the first, with the
\* same max_len, returns its input and changed = false.
C4_SecondPassIsNoOp ==
    (w_pc = "done" /\ pass = 2) => (wrapped = text /\ changed = FALSE)

\* The second run has returned for a text the first run changed, which holds
\* a line with a token wider than max_len.
C4_Witness ==
    /\ w_pc = "done"
    /\ pass = 2
    /\ text # original
    /\ \E k \in 1..Len(parts) :
          \E i \in 1..Len(Tokenize(parts[k])) :
              Tokenize(parts[k])[i].w > max_len

\* C5: for a text a + LF + b, the wrapped text is that of a, a line break,
\* that of b; the output has no fewer line breaks than the input.
C5_ExplicitBreaksAreHard ==
    w_pc = "done" =>
        /\ \A q \in 1..Len(text) :
              text[q] = LF =>
                  wrapped = WrapJaText(SubSeq(text, 1, q - 1), max_len).text
                            \o <<LF>>
                            \o WrapJaText(SubSeq(text, q + 1, Len(text)),
                                          max_len).text
        /\ Len(Split(wrapped)) >= Len(Split(text))

\* wrap_ja_text has returned for a text with an explicit break and an empty
\* segment next to it, and a segment was wrapped.
C5_Witness ==
    /\ w_pc = "done"
    /\ pass = 1
    /\ changed
    /\ \E q \in 1..Len(text) : text[q] = LF
    /\ \E k \in 1..Len(parts) : parts[k] = <<>>

\* ------------------------------------------------------------------------
\* Driver properties
\* ------------------------------------------------------------------------

\* Every cell of the row is blank.
RowIsBlank(row) == \A name \in DOMAIN row : Strip(row[name]) = <<>>

\* The rows a run leaves in the file when it wraps the rows that satisfy
\* processed and skips the others: nothing is rewritten in dry-run mode or
\* when no row changes.
ExpectedFile(before, processed(_), dry, m) ==
    LET after == [k \in 1..Len(before) |->
                    IF processed(before[k])
                    THEN [before[k] EXCEPT
                            !["ja"] = WrapJaText(before[k]["ja"], m).text]
                    ELSE before[k]]
    IN  IF dry THEN before ELSE after

\* C9 as claimed: the skipped records are exactly the comment records, the
\* entirely blank records and the records without ja text.
ProcessedAsClaimed(row) ==
    /\ ~IsCommentKey(Strip(GetOrEmpty(row, "KEY")))
    /\ ~RowIsBlank(row)
    /\ GetOrEmpty(row, "ja") # <<>>

C9_Original ==
    p_pc = "done" =>
        file_rows = ExpectedFile(file_orig, ProcessedAsClaimed, dry_run,
                                 p_max_len)

\* C9, amended: the skipped records are exactly those whose stripped KEY is
\* empty or starts with the comment marker and those whose ja cell is empty
\* or missing.
ProcessedAmended(row) ==
    /\ Strip(GetOrEmpty(row, "KEY")) # <<>>
    /\ ~IsCommentKey(Strip(GetOrEmpty(row, "KEY")))
    /\ GetOrEmpty(row, "ja") # <<>>

\* C9, amended: the driver replaces the ja cell of every record it does not
\* skip by the wrapped text (which differs exactly when changed is true) and
\* leaves every other cell, every other row and the row order as they were; it
\* rewrites nothing in dry-run mode or when no record changed, and returns
\* the number of records it changed.
C9_DriverRewritesOnlyWrapped ==
    p_pc = "done" =>
        /\ file_rows = ExpectedFile(file_orig, ProcessedAmended, dry_run,
                                    p_max_len)
        /\ rows_changed =
              Cardinality({k \in 1..Len(file_orig) :
                  file_orig[k] # ExpectedFile(file_orig, ProcessedAmended,
                                              FALSE, p_max_len)[k]})

\* The driver has rewritten the file and left as it was a record with a blank
\* key whose ja text is wider than max_len.
C9_Witness ==
    /\ p_pc = "done"
    /\ file_rows # file_orig
    /\ \E k \in 1..Len(file_rows) :
          /\ Strip(file_rows[k]["KEY"]) = <<>>
          /\ WrapJaText(file_rows[k]["ja"], p_max_len).changed

\* ------------------------------------------------------------------------
\* Merge properties
\* ------------------------------------------------------------------------

\* The rows the finished merge has written.
MergeOutput == IF inplace THEN base_file.rows ELSE out_file.rows

\* out is the base row with, at most, a blank ja cell replaced by a non-blank
\* value the translated table holds for the row's key.
MergedRowOk(base, out) ==
    /\ DOMAIN out = DOMAIN base
    /\ \A name \in DOMAIN base \ {"ja"} : out[name] = base[name]
    /\ Strip(base["ja"]) # <<>> => out["ja"] = base["ja"]
    /\ out["ja"] # base["ja"] =>
          /\ Strip(base["ja"]) = <<>>
          /\ \E j \in 1..Len(translated.rows) :
                /\ Strip(translated.rows[j]["KEY"]) = Strip(base["KEY"])
                /\ Strip(translated.rows[j]["ja"]) # <<>>
                /\ out["ja"] = translated.rows[j]["ja"]

\* C8: a finished merge has written the base table's rows, in order and in
\* number, each with every column but ja as it was, a non-blank ja cell as it
\* was, and a ja cell replaced only when it was blank and the translated table
\* has a non-blank value for its key; an early return writes nothing; with a
\* separate output file the base file never changes.  Every merge of every
\* sequence of in-place merges starts from the file the one before left and is
\* checked so: a cell that is non-blank once stays as it is.
C8_MergeNeverClobbers ==
    /\ [](m_pc = "done" =>
            /\ Len(MergeOutput) = Len(base_rows)
            /\ \A i \in 1..Len(base_rows) :
                  MergedRowOk(base_rows[i], MergeOutput[i]))
    /\ [][/\ m_pc' = "returned0" =>
                (base_file' = base_file /\ out_file' = out_file)
          /\ ~inplace => base_file' = base_file]_vars

\* A second in-place merge has finished over a table in which the first merge
\* filled a cell, the translated table holding another value for that key, and
\* has filled another cell.
C8_Witness ==
    /\ m_pc = "done"
    /\ inplace
    /\ merged > 0
    /\ skipped > 0
    /\ \E i \in 1..Len(base_rows) :
          /\ base_rows[i]["ja"] \in {<<"m">>, <<"i">>}
          /\ Strip(base_rows[i]["KEY"]) \in DOMAIN translated_index
          /\ translated_index[Strip(base_rows[i]["KEY"])] # base_rows[i]["ja"]

\* ------------------------------------------------------------------------
\* Retry properties
\* ------------------------------------------------------------------------

TranslateEnded == t_pc \in {"returned", "raised"}

\* What holds of the retry loop in every state.
RetryBounded ==
    /\ Len(calls) <= retries + 1
    /\ sleeps <= retries
    /\ \A k \in 1..(Len(calls) - 1) : AttemptFailed(calls[k])
    /\ t_pc = "returned" =>
          /\ ~AttemptFailed(calls[Len(calls)])
          /\ t_result = CallResult(calls[Len(calls)])
          /\ t_result # <<>>
          /\ sleeps = Len(calls) - 1
    /\ t_pc = "raised" =>
          /\ Len(calls) = retries + 1
          /\ \A k \in 1..Len(calls) : AttemptFailed(calls[k])
          /\ sleeps = retries
    /\ (/\ TranslateEnded
        /\ Len(calls) = retries + 1
        /\ \A k \in 1..Len(calls) : AttemptFailed(calls[k])) => t_pc = "raised"
    /\ t_pc = "sleep" => sleeps = Len(calls) - 1 /\ Len(calls) <= retries
    /\ (t_pc = "attempt" /\ attempt <= retries) => sleeps = Len(calls)

\* C10: translate_text makes at most retries + 1 remote calls, stops at and
\* returns the first call whose sanitized result is not empty, sleeps after
\* every failed or empty attempt but the last, raises exactly when all
\* retries + 1 attempts failed or were empty, and always ends.
C10_BoundedRetry == []RetryBounded /\ <>TranslateEnded

\* translate_text has raised after more than one attempt, one of which got a
\* non-blank response that sanitizes to nothing.
C10_Witness ==
    /\ t_pc = "raised"
    /\ retries >= 1
    /\ \E k \in 1..Len(calls) :
          /\ calls[k].kind = "content"
          /\ Strip(calls[k].content) # <<>>
    /\ \E k \in 1..Len(calls) : calls[k].kind = "http"

\* ------------------------------------------------------------------------
\* Fetch driver properties
\* ------------------------------------------------------------------------

\* The calls of translate_text of file f that ended in one of the given ways
RequestsEnded(f, results) ==
    {k \in 1..Len(requests[f]) : requests[f][k].result \in results}

\* The rows of file f translate_text was called for
RequestedRows(f) == {requests[f][k].row : k \in 1..Len(requests[f])}

\* The translations kept for rows of file f before its row i
KeptBefore(f, i) ==
    Cardinality({k \in RequestsEnded(f, {"kept"}) : requests[f][k].row < i})

\* Row i of input file f is eligible: the file has the en and the target
\* column, the input row passes the guards of the loop, and fewer than
\* max_rows translations were kept before it (when max_rows > 0).
Eligible(f, i) ==
    /\ InFieldnames("en", csv_files[f].fieldnames)
    /\ InFieldnames("ja", csv_files[f].fieldnames)
    /\ NeedsRequest(csv_files[f].rows[i], report_targets[f], f_max_rows,
                    KeptBefore(f, i))

\* The rows of file f the loop has passed or is at with a request in flight
RowsReached(f) ==
    CASE task_pc[f] = "pending" -> {}
      [] task_pc[f] = "rows" -> 1..(f_idx[f] - 1)
      [] task_pc[f] = "request" -> 1..f_idx[f]
      [] OTHER -> 1..Len(csv_files[f].rows)

\* The rows of file f that are written to its output file
RowsWritten(f) ==
    CASE task_pc[f] = "pending" -> 0
      [] task_pc[f] \in {"rows", "request"} -> f_idx[f] - 1
      [] OTHER -> Len(csv_files[f].rows)

\* Row i of the output of file f is row i of the input, but for its target cell
SameButTarget(f, i) ==
    LET before == csv_files[f].rows[i]
        after == out_files[f].rows[i]
    IN  /\ DOMAIN after = DOMAIN before
        /\ \A c \in DOMAIN before \ {"ja"} : after[c] = before[c]

RECURSIVE RaisedUpTo(_, _)
\* The requests that raised in the collected tasks of files 1..n
RaisedUpTo(n, collected) ==
    IF n = 0 THEN 0
    ELSE RaisedUpTo(n - 1, collected)
         + (IF n \in collected
            THEN Cardinality(RequestsEnded(n, {"raised"})) ELSE 0)

AllCollected == \A f \in 1..Len(csv_files) : task_pc[f] = "collected"

\* The run can go on: a name is left to submit; or a task is in its loop or
\* waiting for translate_text, which returns or raises; or a finished task
\* can be collected; or a thread is free for the oldest pending task.
CanGoOn ==
    \/ submitted < Len(csv_files)
    \/ \E f \in 1..Len(csv_files) :
          \/ task_pc[f] \in {"rows", "request", "finished"}
          \/ /\ task_pc[f] = "pending"
             /\ Cardinality(Running) < max_workers

\* C11: translation failures are isolated per row.  The row of a request that
\* raised after its retries is written as it was read and counted once in
\* failed_rows, which is added once to total_failed.  No other row or file is
\* cancelled: every file's loop goes on whatever its requests and those of the
\* other files did (until every file's result is collected a step is
\* possible), of the rows it has reached exactly the eligible ones were
\* requested, once each, and the rows it has passed are written in the
\* input's order with only the target cell possibly changed.
C11_FailuresAreIsolated ==
    /\ ~AllCollected => CanGoOn
    /\ \A f \in 1..Len(csv_files) :
        /\ \A k \in RequestsEnded(f, {"raised"}) :
              out_files[f].rows[requests[f][k].row]
                  = csv_files[f].rows[requests[f][k].row]
        /\ failed_rows[f] = Cardinality(RequestsEnded(f, {"raised"}))
        /\ total_failed =
              RaisedUpTo(Len(csv_files),
                         {g \in 1..Len(csv_files) : task_pc[g] = "collected"})
        /\ \A k, l \in 1..Len(requests[f]) :
              k < l => requests[f][k].row < requests[f][l].row
        /\ \A i \in RowsReached(f) : i \in RequestedRows(f) <=> Eligible(f, i)
        /\ RequestedRows(f) \subseteq RowsReached(f)
        /\ Len(out_files[f].rows) = RowsWritten(f)
        /\ \A i \in 1..RowsWritten(f) : SameButTarget(f, i)

\* Two files are done; in one a request raised and the request for a later
\* row of the same file was made and kept, and a request of the other file
\* was kept too.
C11_Witness ==
    /\ AllCollected
    /\ total_failed > 0
    /\ \E f, g \in 1..Len(csv_files) :
          /\ f # g
          /\ \E k, l \in 1..Len(requests[f]) :
                /\ k < l
                /\ requests[f][k].result = "raised"
                /\ requests[f][l].result = "kept"
          /\ RequestsEnded(g, {"kept"}) # {}

\* C12 as stated: each eligible row is its own unit of work, so no unit of
\* work handed to the executor (no task) makes more than one request, and at
\* no time are more than max_workers requests in flight.
C12_Original ==
    /\ \A f \in 1..Len(csv_files) : Len(requests[f]) <= 1
    /\ Cardinality(InFlight) <= max_workers

\* C12 (amended): the driver fans out one unit of work per input file across a
\* bounded pool.  A file's task makes the requests of its rows one after
\* another: at most one request of a file is in flight, it is the task's
\* latest, and the task waits for it.  At no time are more than max_workers
\* tasks running or requests in flight, where max_workers is at least 1 and at
\* most the number of input files (1 when there is none).
C12_FanOutPerFile ==
    /\ Cardinality(InFlight) <= max_workers
    /\ Cardinality(Running) <= max_workers
    /\ max_workers >= 1
    /\ max_workers <= Max({1, Len(csv_files)})
    /\ \A f \in 1..Len(csv_files) :
          /\ Cardinality(RequestsEnded(f, {"in flight"})) <= 1
          /\ RequestsEnded(f, {"in flight"}) \subseteq {Len(requests[f])}
          /\ RequestsEnded(f, {"in flight"}) # {} <=> task_pc[f] = "request"
          /\ task_pc[f] = "request" =>
                requests[f][Len(requests[f])].row = f_idx[f]

\* The requests of two files are in flight at once, as many as max_workers,
\* and for the first file it is the second request of its task.
C12_Witness ==
    /\ Len(csv_files) = 2
    /\ max_workers = 2
    /\ Len(requests[1]) = 2
    /\ task_pc[1] = "request"
    /\ task_pc[2] = "request"

\* ------------------------------------------------------------------------
\* The packing rule
\* ------------------------------------------------------------------------

\* The greedy rule asks for a break before the token: its width is positive,
\* the current line is not empty and the accumulated width with the token's
\* is over max_len.
RuleBreaks(st, tok, m) ==
    /\ tok.w > 0
    /\ st.current # <<>>
    /\ st.current_display + tok.w > m

\* One iteration of the loop follows the rule: a break is inserted before the
\* token exactly when the rule asks for it, and then the token starts the new
\* line; otherwise the token is appended to the current line.
StepFollowsRule ==
    (w_pc = "pack" /\ w_pc' = "pack" /\ tok_idx' = tok_idx + 1) =>
        LET tok == tokens[tok_idx]
        IN  /\ RuleBreaks(pack, tok, max_len) <=>
                  Len(pack'.lines) = Len(pack.lines) + 1
            /\ RuleBreaks(pack, tok, max_len) =>
                  /\ pack'.lines = Append(pack.lines, pack.current)
                  /\ pack'.current = tok.s
                  /\ pack'.current_display = tok.w
            /\ ~RuleBreaks(pack, tok, max_len) =>
                  /\ pack'.lines = pack.lines
                  /\ pack'.current = pack.current \o tok.s
                  /\ pack'.current_display = pack.current_display + tok.w
            /\ tok.w = 0 => pack'.lines = pack.lines

\* No line is empty, and every line after the first starts with a token of
\* positive width.
LinesByRule(toks, ls) ==
    \A j \in 1..Len(ls) :
        /\ ls[j] # <<>>
        /\ j > 1 => LineToks(toks, ls, j)[1].w > 0

\* The lines of the loop and of the segment wrap_segment returned last (each
\* segment is the last one when it is returned) are by the rule, the
\* accumulated width is the width of the current line, and for a segment
\* within max_len running the rule gives the segment itself, which is what
\* the fast path returned.
PackedByRule ==
    /\ w_pc = "pack" =>
          /\ LinesByRule(tokens, pack.lines)
          /\ LinesByRule(tokens, PackLines(pack))
          /\ pack.current_display =
                IF pack.current = <<>> THEN 0
                ELSE TotalWidth(LineToks(tokens, PackLines(pack),
                                         Len(PackLines(pack))))
    /\ \A k \in {Len(wrapped_parts)} \ {0} :
          LET toks == Tokenize(parts[k])
              byRule == PackLines(PackLoop(toks, 1, PackInit, max_len))
          IN  /\ wrapped_parts[k] = Join(byRule)
              /\ LinesByRule(toks, byRule)
              /\ TotalWidth(toks) <= max_len =>
                    /\ wrapped_parts[k] = parts[k]
                    /\ Len(byRule) <= 1

\* C13: wrap_segment is the greedy packer.  Scanning the tokens in order with
\* an accumulated width, a break is inserted before a token if and only if
\* its width is positive, the current line is not empty and accumulated width
\* + token width > max_len; otherwise the token is appended to the current
\* line.  So a token of width 0 never triggers a break and never starts a
\* line made by a break, no emitted line is empty, and for a segment of total
\* width <= max_len the rule inserts nothing: the fast path returns what the
\* rule gives.
C13_GreedyPacker == []PackedByRule /\ [][StepFollowsRule]_vars

\* After a break, a tag of width 0 was appended to a line that is as wide as
\* max_len.
C13_Witness ==
    /\ w_pc = "pack"
    /\ pack.lines # <<>>
    /\ tok_idx > 1
    /\ tokens[tok_idx - 1].w = 0
    /\ pack.current_display = max_len

\* ------------------------------------------------------------------------
\* The width of a template variable
\* ------------------------------------------------------------------------

\* C14: the display width tokenize gives to a template variable token is its
\* inner text length, the number of characters between the opening and the
\* closing brace, not counting the two braces.
C14_VarWidthIsInnerLength ==
    \A k \in 1..Len(tk_tokens) :
        IsVarShape(tk_tokens[k].s) => tk_tokens[k].w = Len(tk_tokens[k].s) - 2

\* ------------------------------------------------------------------------
\* Only missing rows are filled
\* ------------------------------------------------------------------------

\* The row may be filled: it is no comment row and no blank row, its English
\* text is not blank, and its trimmed target text is empty or the trimmed
\* English text.
MayBeFilled(row) ==
    /\ ~IsCommentKey(Strip(row["KEY"]))
    /\ \E c \in DOMAIN row : Strip(row[c]) # <<>>
    /\ Strip(row["en"]) # <<>>
    /\ Strip(row["ja"]) \in {<<>>, Strip(row["en"])}

\* The rows of file f written with another target cell than they were read with
Overwritten(f) ==
    {i \in 1..Len(out_files[f].rows) :
        out_files[f].rows[i]["ja"] # csv_files[f].rows[i]["ja"]}

\* C15: the translation driver fills only missing rows.  process_file
\* overwrites a row's target cell only when the row is not a comment or blank
\* row, its English text is non-blank and its trimmed target text is empty or
\* equal to the trimmed English text; every row whose target cell holds a
\* different non-blank text is written with that cell unchanged; and when
\* max_rows > 0 at most max_rows cells are overwritten per file.  (A file
\* without the en or the target column is copied.)
C15_FillsOnlyMissing ==
    \A f \in 1..Len(csv_files) :
        IF InFieldnames("en", csv_files[f].fieldnames)
              /\ InFieldnames("ja", csv_files[f].fieldnames)
        THEN /\ \A i \in Overwritten(f) : MayBeFilled(csv_files[f].rows[i])
             /\ \A i \in 1..Len(out_files[f].rows) :
                   LET row == csv_files[f].rows[i]
                   IN  (Strip(row["ja"]) \notin {<<>>, Strip(row["en"])}) =>
                           out_files[f].rows[i] = row
             /\ f_max_rows > 0 => Cardinality(Overwritten(f)) <= f_max_rows
             /\ translated_rows[f] = Cardinality(Overwritten(f))
             /\ \A i \in 1..Len(out_files[f].rows) :
                   out_files[f].rows[i] = f_rows[f][i]
        ELSE /\ task_pc[f] \in {"pending", "finished", "collected"}
             /\ task_pc[f] # "pending" =>
                   out_files[f].rows = csv_files[f].rows

\* A file is done with max_rows = 1: the target cell of its first row, which
\* was empty, is overwritten, and its second row, whose target is the English
\* text, is written as it was, without a request.
C15_Witness ==
    \E f \in 1..Len(csv_files) :
        /\ task_pc[f] = "collected"
        /\ f_max_rows = 1
        /\ Len(csv_files[f].rows) = 2
        /\ Overwritten(f) = {1}
        /\ csv_files[f].rows[1]["ja"] = <<>>
        /\ MayBeFilled(csv_files[f].rows[2])
        /\ csv_files[f].rows[2]["ja"] # <<>>
        /\ RequestedRows(f) = {1}

====
